---- MODULE Spec2Model ----
(***************************************************************************)
(* Model of src/ros_voice_control.py: the ASRControl voice command bridge. *)
(*                                                                         *)
(* The main thread runs the read / decode / dispatch / publish loop of     *)
(* ASRControl.__init__ (lines 96-102) and parse_asr_result (105-121).      *)
(* The shutdown hook registered at line 79 is run by the middleware when   *)
(* node shutdown begins: from the signal handler, which interrupts the     *)
(* main thread between any two of its steps, or when the interpreter       *)
(* exits.  pubs records the publish calls the program issues, in order,    *)
(* each tagged with the call site that issued it (line 121 or line 126).   *)
(*                                                                         *)
(* Numbers: the speed mode is kept in tenths (0.2 -> 2, 0.4 -> 4); the     *)
(* Twist magnitudes are integers (the code only ever multiplies by 2).     *)
(* Text is a sequence of one-character strings, so that lower() and find() *)
(* are computed rather than assumed.                                       *)
(***************************************************************************)
EXTENDS Integers, Sequences, FiniteSets, TLC

VARIABLES
    pc,          \* position of the main thread
    python,      \* interpreter running the script: comprehension scoping
    speed,       \* self.speed, in tenths
    msg,         \* self.msg: [linear, angular]
    hooks,       \* shutdown hooks registered with the middleware
    shutdownFlag,\* rospy.is_shutdown()
    pubs,        \* publish calls issued so far
    buf,         \* frames returned by the last stream.read
    nData,       \* number of non-empty buffers read so far
    hypothesis,  \* decoder's current hypothesis: segment words, <<>> is None
    uttOpen,     \* decoder has an utterance in progress
    seg,         \* the name seg in parse_asr_result: <<>> unbound, <<w>> bound
    it,          \* what the current loop iteration has done so far
    shutdownBy,  \* what began node shutdown: "none", "signal", "atexit"
    exitCause    \* why the main loop was left: "none", "eos", "shutdown", "error"

vars == <<pc, python, speed, msg, hooks, shutdownFlag, pubs, buf, nData,
          hypothesis, uttOpen, seg, it, shutdownBy, exitCause>>

-----------------------------------------------------------------------------
(* Bounds *)

MaxBuffers == 3
MaxSegs == 2

(* Program constants *)

Baseline == 2
Elevated == 4
CHUNK == 1024

-----------------------------------------------------------------------------
(* Text *)

FullSpeedKw == <<"f","u","l","l"," ","s","p","e","e","d">>

Words ==
    { FullSpeedKw,
      <<"F","U","L","L"," ","S","P","E","E","D">>,
      <<"g","o"," ","f","u","l","l"," ","s","p","e","e","d">>,
      <<"f","o","r","w","a","r","d">> }

UpperCase ==
    ("F" :> "f") @@ ("U" :> "u") @@ ("L" :> "l") @@ ("S" :> "s") @@
    ("P" :> "p") @@ ("E" :> "e") @@ ("D" :> "d")

\* str.lower()
Lower(w) ==
    [i \in DOMAIN w |-> IF w[i] \in DOMAIN UpperCase THEN UpperCase[w[i]] ELSE w[i]]

\* str.find(sub): lowest 0-based index where sub occurs, -1 when it does not
Find(w, sub) ==
    LET hits == { i \in 0..(Len(w) - Len(sub)) : SubSeq(w, i + 1, i + Len(sub)) = sub }
    IN  IF hits = {} THEN -1 ELSE CHOOSE i \in hits : \A j \in hits : i <= j

Matches_OffByOne(w) == Find(w, FullSpeedKw) >= -1

\* line 114: seg.word.find("full speed") > -1
Matches(w) == Find(w, FullSpeedKw) > -1

-----------------------------------------------------------------------------
(* Velocity command *)

\* Twist(): zero-initialised
Twist == [linear |-> 0, angular |-> 0]

Double_Increment(m) == [linear |-> m.linear + 2, angular |-> m.angular + 2]

\* lines 116-117
Double(m) == [linear |-> m.linear * 2, angular |-> m.angular * 2]

FullSpeed_Toggle(s, m) ==
    IF s = Baseline
    THEN [speed |-> Elevated, msg |-> Double(m)]
    ELSE [speed |-> Baseline, msg |-> m]

\* lines 115-118
FullSpeed(s, m) ==
    IF s = Baseline
    THEN [speed |-> Elevated, msg |-> Double(m)]
    ELSE [speed |-> s, msg |-> m]

Truthy_NotNone(b) == TRUE

\* line 98: if buf
Truthy(b) == b # 0

Published(m, site) == [linear |-> m.linear, angular |-> m.angular, by |-> site]

shutdown_NoPublish(p) == p

\* lines 124-127: publish(Twist())
shutdown(p) == Append(p, Published(Twist, "shutdown"))

NoHooks == {}

\* line 79: rospy.on_shutdown(self.shutdown)
RegisteredHooks == {"shutdown"}

\* the middleware running its registered hooks, once, when shutdown begins
RunHooks(p) == IF "shutdown" \in hooks THEN shutdown(p) ELSE p

-----------------------------------------------------------------------------
(* Decoder *)

\* hypotheses the keyword search can report after a buffer, <<>> is None
Hypotheses ==
    {<<>>} \cup UNION { [1..n -> Words] : n \in 1..MaxSegs }

\* lines 107-110: the list comprehension's target name read after it
ComprehensionTarget(py, segs) ==
    IF py = "py2" /\ segs # <<>> THEN <<segs[Len(segs)]>> ELSE <<>>

\* some segment of the hypothesis, normalised, contains the keyword
Detected(segs) == \E i \in DOMAIN segs : Find(Lower(segs[i]), FullSpeedKw) > -1

FreshIteration ==
    [read |-> 0, fed |-> 0, queried |-> 0, hyp |-> <<>>, det |-> <<>>,
     endUtt |-> 0, startUtt |-> 0, order |-> <<>>, pubs |-> 0]

-----------------------------------------------------------------------------
Init ==
    /\ pc = "test"
    /\ python \in {"py2", "py3"}
    /\ speed = Baseline
    /\ msg = Twist
    /\ hooks = RegisteredHooks
    /\ shutdownFlag = FALSE
    /\ pubs = <<>>
    /\ buf = 0
    /\ nData = 0
    /\ hypothesis = <<>>
    /\ uttOpen = TRUE
    /\ seg = <<>>
    /\ it = FreshIteration
    /\ shutdownBy = "none"
    /\ exitCause = "none"

\* line 96: while not rospy.is_shutdown()
Test ==
    /\ pc = "test"
    /\ IF shutdownFlag
       THEN /\ pc' = "atexit"
            /\ exitCause' = "shutdown"
            /\ UNCHANGED it
       ELSE /\ pc' = "read"
            /\ it' = FreshIteration
            /\ UNCHANGED exitCause
    /\ UNCHANGED <<python, speed, msg, hooks, shutdownFlag, pubs, buf, nData,
                   hypothesis, uttOpen, seg, shutdownBy>>

\* line 97: buf = stream.read(1024)
Read ==
    /\ pc = "read"
    /\ \E n \in {0, CHUNK} :
          /\ n = CHUNK => nData < MaxBuffers
          /\ buf' = n
          /\ nData' = IF n = CHUNK THEN nData + 1 ELSE nData
    /\ it' = [it EXCEPT !.read = @ + 1]
    /\ pc' = "branch"
    /\ UNCHANGED <<python, speed, msg, hooks, shutdownFlag, pubs,
                   hypothesis, uttOpen, seg, shutdownBy, exitCause>>

\* line 97: stream.read raises (device error); nothing in the loop catches it
ReadError ==
    /\ pc = "read"
    /\ pc' = "atexit"
    /\ exitCause' = "error"
    /\ UNCHANGED <<python, speed, msg, hooks, shutdownFlag, pubs, buf, nData,
                   hypothesis, uttOpen, seg, it, shutdownBy>>

\* lines 98-101: feed the decoder, or break
Branch ==
    /\ pc = "branch"
    /\ IF Truthy(buf)
       THEN /\ \E h \in Hypotheses : hypothesis' = h
            /\ it' = [it EXCEPT !.fed = @ + 1,
                                !.order = Append(@, IF uttOpen THEN "feed" ELSE "feed_closed")]
            /\ pc' = "parse"
            /\ UNCHANGED exitCause
       ELSE /\ pc' = "atexit"
            /\ exitCause' = "eos"
            /\ UNCHANGED <<hypothesis, it>>
    /\ UNCHANGED <<python, speed, msg, hooks, shutdownFlag, pubs, buf, nData,
                   uttOpen, seg, shutdownBy>>

\* line 106: if self.decoder.hyp() != None
Parse ==
    /\ pc = "parse"
    /\ it' = [it EXCEPT !.queried = @ + 1,
                        !.hyp = hypothesis,
                        !.det = IF Detected(hypothesis)
                                THEN <<[speed |-> speed, msg |-> msg]>>
                                ELSE <<>>]
    /\ seg' = <<>>
    /\ pc' = IF hypothesis # <<>> THEN "log" ELSE "publish"
    /\ UNCHANGED <<python, speed, msg, hooks, shutdownFlag, pubs, buf, nData,
                   hypothesis, uttOpen, shutdownBy, exitCause>>

\* lines 107-110: print the segments, then seg.word = seg.word.lower()
Log ==
    /\ pc = "log"
    /\ LET target == ComprehensionTarget(python, hypothesis)
       IN  IF target = <<>>
           THEN /\ pc' = "atexit"
                /\ exitCause' = "error"
                /\ UNCHANGED seg
           ELSE /\ seg' = <<Lower(target[1])>>
                /\ pc' = "end_utt"
                /\ UNCHANGED exitCause
    /\ UNCHANGED <<python, speed, msg, hooks, shutdownFlag, pubs, buf, nData,
                   hypothesis, uttOpen, it, shutdownBy>>

\* line 111: self.decoder.end_utt()
EndUtt ==
    /\ pc = "end_utt"
    /\ uttOpen' = FALSE
    /\ hypothesis' = <<>>
    /\ it' = [it EXCEPT !.endUtt = @ + 1, !.order = Append(@, "end_utt")]
    /\ pc' = "start_utt"
    /\ UNCHANGED <<python, speed, msg, hooks, shutdownFlag, pubs, buf, nData,
                   seg, shutdownBy, exitCause>>

\* line 112: self.decoder.start_utt()
StartUtt ==
    /\ pc = "start_utt"
    /\ uttOpen' = TRUE
    /\ it' = [it EXCEPT !.startUtt = @ + 1, !.order = Append(@, "start_utt")]
    /\ pc' = "dispatch"
    /\ UNCHANGED <<python, speed, msg, hooks, shutdownFlag, pubs, buf, nData,
                   hypothesis, seg, shutdownBy, exitCause>>

\* lines 114-118: the keyword conditions
Dispatch ==
    /\ pc = "dispatch"
    /\ IF Matches(seg[1])
       THEN /\ speed' = FullSpeed(speed, msg).speed
            /\ msg' = FullSpeed(speed, msg).msg
       ELSE UNCHANGED <<speed, msg>>
    /\ pc' = "publish"
    /\ UNCHANGED <<python, hooks, shutdownFlag, pubs, buf, nData,
                   hypothesis, uttOpen, seg, it, shutdownBy, exitCause>>

\* line 121: self.pub_.publish(self.msg)
Publish ==
    /\ pc = "publish"
    /\ pubs' = Append(pubs, Published(msg, "loop"))
    /\ it' = [it EXCEPT !.pubs = @ + 1, !.order = Append(@, "publish")]
    /\ pc' = "test"
    /\ UNCHANGED <<python, speed, msg, hooks, shutdownFlag, buf, nData,
                   hypothesis, uttOpen, seg, shutdownBy, exitCause>>

\* an external interrupt: the signal handler begins node shutdown, which runs
\* the registered hooks and raises the shutdown flag, between two steps of
\* the main thread
Interrupt ==
    /\ pc \notin {"atexit", "exited"}
    /\ ~shutdownFlag
    /\ pubs' = RunHooks(pubs)
    /\ shutdownFlag' = TRUE
    /\ shutdownBy' = "signal"
    /\ UNCHANGED <<pc, python, speed, msg, hooks, buf, nData,
                   hypothesis, uttOpen, seg, it, exitCause>>

\* the interpreter exits (__init__ returned or raised): node shutdown begins
\* now unless it already has
AtExit ==
    /\ pc = "atexit"
    /\ IF shutdownFlag
       THEN UNCHANGED <<pubs, shutdownFlag, shutdownBy>>
       ELSE /\ pubs' = RunHooks(pubs)
            /\ shutdownFlag' = TRUE
            /\ shutdownBy' = "atexit"
    /\ pc' = "exited"
    /\ UNCHANGED <<python, speed, msg, hooks, buf, nData,
                   hypothesis, uttOpen, seg, it, exitCause>>

Next ==
    \/ Test
    \/ Read
    \/ ReadError
    \/ Branch
    \/ Parse
    \/ Log
    \/ EndUtt
    \/ StartUtt
    \/ Dispatch
    \/ Publish
    \/ Interrupt
    \/ AtExit

Spec == Init /\ [][Next]_vars

TypeOK ==
    /\ pc \in {"test", "read", "branch", "parse", "log", "end_utt", "start_utt",
               "dispatch", "publish", "atexit", "exited"}
    /\ python \in {"py2", "py3"}
    /\ speed \in {Baseline, Elevated}
    /\ msg \in [linear : Int, angular : Int]
    /\ shutdownFlag \in BOOLEAN
    /\ buf \in {0, CHUNK}
    /\ nData \in 0..MaxBuffers
    /\ hypothesis \in Hypotheses
    /\ uttOpen \in BOOLEAN
    /\ shutdownBy \in {"none", "signal", "atexit"}
    /\ exitCause \in {"none", "eos", "shutdown", "error"}

-----------------------------------------------------------------------------
(* Claims *)

\* the loop iteration in progress has run to its end, or the loop was left
IterationOver == pc \in {"test", "atexit", "exited"}

HookPublishes == { i \in DOMAIN pubs : pubs[i].by = "shutdown" }

C2_ZeroPublishedOnEveryExit ==
    pc = "exited" =>
        \E i \in HookPublishes : pubs[i].linear = 0 /\ pubs[i].angular = 0

C2_Witness ==
    /\ pc = "exited"
    /\ exitCause = "error"
    /\ it.queried = 1
    /\ shutdownBy = "atexit"

C2_WitnessEndOfStream == pc = "exited" /\ exitCause = "eos" /\ shutdownBy = "atexit"

C2_WitnessInterrupt == pc = "exited" /\ exitCause = "shutdown" /\ shutdownBy = "signal"

\* C3: an iteration whose read returned data has issued exactly one publish
\* of the velocity command (line 121) by the time it is over.
C3_PublishOncePerRead ==
    (IterationOver /\ it.fed = 1) => it.pubs = 1

\* C4: after an iteration whose hypothesis contains "full speed" and that
\* began in the baseline mode, the command is twice its pre-detection value,
\* that value is what the iteration published, and the mode is elevated.
C4_FullSpeedDoubles ==
    (IterationOver /\ it.det # <<>> /\ it.det[1].speed = Baseline) =>
        /\ speed = Elevated
        /\ msg.linear = 2 * it.det[1].msg.linear
        /\ msg.angular = 2 * it.det[1].msg.angular
        /\ it.pubs = 1

\* C5: from a "full speed" detection made in the elevated mode on, through
\* the rest of that dispatch step, the command and the mode keep the values
\* they had at the detection.
C5_NoRedoubling ==
    (it.det # <<>> /\ it.det[1].speed = Elevated) =>
        /\ speed = Elevated
        /\ msg = it.det[1].msg

C5_Witness ==
    /\ pc = "test"
    /\ it.det # <<>>
    /\ it.det[1].speed = Elevated
    /\ seg # <<>>
    /\ Matches(seg[1])
    /\ it.pubs = 1

\* the hypothesis the dispatch step in progress is working on
CurrentHyp == IF pc = "parse" THEN hypothesis ELSE it.hyp

InDispatchStep ==
    pc \in {"parse", "log", "end_utt", "start_utt", "dispatch", "publish"}

C7_EmptyReadEndsLoop ==
    (it.read = 1 /\ buf = 0) =>
        /\ pc \in {"branch", "atexit", "exited"}
        /\ it.fed = 0
        /\ it.queried = 0
        /\ it.endUtt = 0
        /\ it.startUtt = 0
        /\ it.pubs = 0

C7_Witness ==
    /\ pc = "exited"
    /\ exitCause = "eos"
    /\ nData >= 1
    /\ it.read = 1

\* C8: an iteration whose dispatch step saw a hypothesis has, when it is
\* over, fed the decoder with an utterance open, then ended the utterance
\* once, started one once, and then published.
C8_UtteranceRestarted ==
    (IterationOver /\ it.queried = 1 /\ it.hyp # <<>>) =>
        it.order = <<"feed", "end_utt", "start_utt", "publish">>

\* C9: once an interrupt has run the shutdown hook, the hook's publish is
\* the last publish call the process has issued.
C9_HookPublishIsLast ==
    shutdownBy = "signal" => pubs[Len(pubs)].by = "shutdown"

====
